---------------------------- MODULE Spec2Model ----------------------------
(***************************************************************************)
(* Model of app.py, the NCP Cyber Health Check (NIST CSF) Streamlit app:   *)
(* the scoring helpers (compute_nist_scores, get_e8_map, compute_recos,    *)
(* build_markdown_report) and the script's session-state machine (splash,  *)
(* form, Calculate results, Reset).                                        *)
(*                                                                         *)
(* Conventions                                                             *)
(*  - A Python value is a pair <<type, value>>: <<"str", s>>, <<"int", n>>,*)
(*    <<"bool", b>>.  A dict is a function whose DOMAIN is its key set.    *)
(*  - A float that is a mean of integers is the exact fraction             *)
(*    [num |-> sum, den |-> count]; comparisons cross-multiply.            *)
(*  - A string built by an f-string is the sequence of its fragments; a    *)
(*    text joined with "\n" is the sequence of its lines.                  *)
(*  - The dashes of the source's literals are written "-" here.            *)
(***************************************************************************)
EXTENDS Integers, Sequences, FiniteSets, TLC

VARIABLES
    session,    \* st.session_state of the running app
    screen,     \* what the last script run rendered: "splash" | "form" | "results"
    clicked,    \* the user event that triggered the last script run
    org,        \* the Organization widgets: company, industry, size
    results,    \* what the results block of the last run computed
    state,      \* scoring harness: the dict handed to compute_nist_scores
    base,       \* scoring harness: the uniform answer the dict was started from
    nist_out,   \* scoring harness: outcome of compute_nist_scores(state)
    in_df,      \* recommendation harness: the DataFrame handed to compute_recos
    in_e8,      \* recommendation harness: the dict handed to get_e8_map
    in_company, \* recommendation harness: the company handed to the report
    reco_out    \* recommendation harness: outcome of get_e8_map, compute_recos, report

vars == <<session, screen, clicked, org, results, state, base, nist_out,
          in_df, in_e8, in_company, reco_out>>

---------------------------------------------------------------------------
(* Bounds of the model *)

\* scoring harness: how many answers may differ from the uniform starting dict
MaxEdits == 1
\* recommendation harness: how many arguments may differ from the starting form
MaxRecoEdits == 1
\* how many form answers the user may move away from the widget defaults
MaxChanges == 1

---------------------------------------------------------------------------
(* Python values and dicts *)

PyStr(s) == <<"str", s>>
PyInt(n) == <<"int", n>>
PyBool(b) == <<"bool", b>>

\* isinstance(raw, int)
IsInt(raw) == raw[1] = "int"

\* dict.get(key, default)
Get(d, key, default) == IF key \in DOMAIN d THEN d[key] ELSE default

\* d[key] = value
Put(d, key, value) == [k \in DOMAIN d \cup {key} |-> IF k = key THEN value ELSE d[k]]

\* d.setdefault(key, value)
SetDefault(d, key, value) == IF key \in DOMAIN d THEN d ELSE Put(d, key, value)

\* del d[key] for every key of ks
DelAll(d, ks) == [k \in DOMAIN d \ ks |-> d[k]]

\* the elements of a sequence
Range(s) == {s[i] : i \in 1..Len(s)}

RECURSIVE SumSeq(_)
SumSeq(s) == IF s = <<>> THEN 0 ELSE Head(s) + SumSeq(Tail(s))

---------------------------------------------------------------------------
(* Data model *)

SCALE ==
    [l \in {"No", "Partially", "Mostly", "Fully", "Don't know"} |->
        CASE l = "No" -> 0
          [] l = "Partially" -> 1
          [] l = "Mostly" -> 2
          [] l = "Fully" -> 3
          [] l = "Don't know" -> 1]

SCALE_LABELS == <<"No", "Partially", "Mostly", "Fully", "Don't know">>

NIST_FUNCTIONS == <<"Identify", "Protect", "Detect", "Respond", "Recover">>

\* len(QUESTIONS[func])
QUESTIONS == [f \in Range(NIST_FUNCTIONS) |-> 3]

E8_ITEMS ==
    <<"Application Control", "Patch Applications", "Configure MS Office Macros",
      "User Application Hardening", "Restrict Admin Privileges",
      "Patch Operating Systems", "Multi-factor Authentication", "Regular Backups">>

E8_SCALE == <<"Not implemented", "Partially", "Mostly", "Fully">>

\* a faulty variant: the key is built from the first function for every func
QuestionKeyMutant(func, i) ==
    CASE i = 1 -> "Identify_1" [] i = 2 -> "Identify_2" [] i = 3 -> "Identify_3"

\* f"{func}_{i}", i from 1
QuestionKey(func, i) ==
    CASE func = "Identify" ->
            (CASE i = 1 -> "Identify_1" [] i = 2 -> "Identify_2" [] i = 3 -> "Identify_3")
      [] func = "Protect" ->
            (CASE i = 1 -> "Protect_1" [] i = 2 -> "Protect_2" [] i = 3 -> "Protect_3")
      [] func = "Detect" ->
            (CASE i = 1 -> "Detect_1" [] i = 2 -> "Detect_2" [] i = 3 -> "Detect_3")
      [] func = "Respond" ->
            (CASE i = 1 -> "Respond_1" [] i = 2 -> "Respond_2" [] i = 3 -> "Respond_3")
      [] func = "Recover" ->
            (CASE i = 1 -> "Recover_1" [] i = 2 -> "Recover_2" [] i = 3 -> "Recover_3")

\* f"E8_{i}", i from 0
E8Key(i) ==
    CASE i = 0 -> "E8_0" [] i = 1 -> "E8_1" [] i = 2 -> "E8_2" [] i = 3 -> "E8_3"
      [] i = 4 -> "E8_4" [] i = 5 -> "E8_5" [] i = 6 -> "E8_6" [] i = 7 -> "E8_7"

\* a faulty variant: the test negated
StartsWithUnderscoreMutant(k) == k # "_ran"

\* k.startswith("_"), over the keys the script ever stores
StartsWithUnderscore(k) == k = "_ran"

---------------------------------------------------------------------------
(* compute_nist_scores *)

\* a faulty variant: another default
MissingAnswerMutant == PyStr("Don't know")

\* the default of state.get(f"{func}_{i}", "Mostly")
MissingAnswer == PyStr("Mostly")

\* a faulty variant: another default
UnknownLabelValueMutant == 1 - 1

\* the default of SCALE.get(..., 1)
UnknownLabelValue == 1

\* a faulty variant: "Fully" valued as "Mostly"
ScoringScaleMutant == [SCALE EXCEPT !["Fully"] = 2]

\* the scale the scores are looked up in
ScoringScale == SCALE

\* SCALE.get(v, 1)
SCALE_get(v) ==
    IF v[1] = "str" /\ v[2] \in DOMAIN ScoringScale
    THEN ScoringScale[v[2]]
    ELSE UnknownLabelValue

\* float(np.mean(vals)) if vals else 0.0
Mean(vals) ==
    IF vals = <<>> THEN [num |-> 0, den |-> 1]
    ELSE [num |-> SumSeq(vals), den |-> Len(vals)]

\* the list comprehension of line 136
Vals(st, func) ==
    [i \in 1..QUESTIONS[func] |-> SCALE_get(Get(st, QuestionKey(func, i), MissingAnswer))]

\* the DataFrame: one row per function, in NIST_FUNCTIONS order
compute_nist_scores(st) ==
    [r \in 1..Len(NIST_FUNCTIONS) |->
        [Function |-> NIST_FUNCTIONS[r], Score |-> Mean(Vals(st, NIST_FUNCTIONS[r]))]]

\* comparisons of two fractions with positive denominators
Lt(a, b) == a.num * b.den < b.num * a.den
Eq(a, b) == a.num * b.den = b.num * a.den

RECURSIVE ProdDen(_)
ProdDen(df) == IF df = <<>> THEN 1 ELSE Head(df).Score.den * ProdDen(Tail(df))

\* overall = float(nist_df["Score"].mean()) if not nist_df.empty else 0.0
Overall(df) ==
    IF df = <<>> THEN [num |-> 0, den |-> 1]
    ELSE LET D == ProdDen(df)
         IN  [num |-> SumSeq([r \in 1..Len(df) |-> df[r].Score.num * (D \div df[r].Score.den)]),
              den |-> Len(df) * D]

---------------------------------------------------------------------------
(* get_e8_map *)

\* E8_SCALE.index(raw), 0-based
E8_SCALE_index(label) == (CHOOSE i \in 1..Len(E8_SCALE) : E8_SCALE[i] = label) - 1

\* idx = raw if isinstance(raw, int) else (E8_SCALE.index(raw) if raw in E8_SCALE else 1)
E8Index(raw) ==
    IF IsInt(raw) THEN raw[2]
    ELSE IF raw[1] = "str" /\ raw[2] \in Range(E8_SCALE) THEN E8_SCALE_index(raw[2])
    ELSE 1

\* the dict name -> idx, as its items in insertion order (E8_ITEMS order)
get_e8_map(st) ==
    [i \in 1..Len(E8_ITEMS) |->
        <<E8_ITEMS[i], E8Index(Get(st, E8Key(i - 1), PyStr(E8_SCALE[2])))>>]

---------------------------------------------------------------------------
(* compute_recos *)

\* str(n) of an int, as its characters
DigitChar(d) ==
    CASE d = 0 -> "0" [] d = 1 -> "1" [] d = 2 -> "2" [] d = 3 -> "3" [] d = 4 -> "4"
      [] d = 5 -> "5" [] d = 6 -> "6" [] d = 7 -> "7" [] d = 8 -> "8" [] d = 9 -> "9"

RECURSIVE NatStr(_)
NatStr(n) == IF n < 10 THEN <<DigitChar(n)>> ELSE NatStr(n \div 10) \o <<DigitChar(n % 10)>>

IntStr(n) == IF n < 0 THEN <<"-">> \o NatStr(-n) ELSE NatStr(n)

\* What nist_df.sort_values("Score").head(n) can return, as row numbers of
\* nist_df.  The default sort kind is "quicksort", which pandas and NumPy
\* document as not stable: rows come out ascending by Score, rows of equal
\* Score in an order the NumPy build decides.  So a head is any n distinct
\* rows in ascending order that no row left out precedes.
SortedHeads(df, n) ==
    LET m == IF Len(df) < n THEN Len(df) ELSE n
    IN  {h \in [1..m -> 1..Len(df)] :
            /\ \A i, j \in 1..m : i < j => h[i] # h[j] /\ ~Lt(df[h[j]].Score, df[h[i]].Score)
            /\ \A c \in 1..Len(df) :
                  (\A i \in 1..m : h[i] # c) => \A i \in 1..m : ~Lt(df[c].Score, df[h[i]].Score)}

\* the n of .head(n)
HeadCount == 2

head(s, n) == SubSeq(s, 1, IF Len(s) < n THEN Len(s) ELSE n)

\* sorted(items, key=lambda kv: kv[1]): Python's sort is stable
InsertByLevel(s, kv) ==
    LET k == Cardinality({i \in 1..Len(s) : s[i][2] <= kv[2]})
    IN  SubSeq(s, 1, k) \o <<kv>> \o SubSeq(s, k + 1, Len(s))

RECURSIVE sorted_by_level(_)
sorted_by_level(items) ==
    IF items = <<>> THEN <<>>
    ELSE InsertByLevel(sorted_by_level(SubSeq(items, 1, Len(items) - 1)), items[Len(items)])

\* a faulty variant: one item more
E8PickMutant == 2 + 1

\* the slice [:2] of the sorted items
E8Pick == 2

\* a faulty variant: a cap one too high
RecoCapMutant == 6 + 1

\* the slice recs[:6]
RecoCap == 6

LiftLine(lf) == <<"Lift **", lf, "** maturity with time-boxed actions and clear owners.">>

RaiseLine(name, score) ==
    <<"Raise **Essential Eight - ", name, "** from Level ">> \o IntStr(score)
        \o <<" via a 30-60 day improvement plan.">>

MfaLine == <<"Enforce **MFA** universally (privileged, email, remote, cloud).">>
PatchLine == <<"Tighten **patch SLAs** for internet-exposed systems and apps.">>
BackupLine == <<"Ensure **tested backups** with defined RTO/RPO.">>

\* low: the rows sort_values("Score").head(2) returned, one of
\* SortedHeads(nist_df, HeadCount)
compute_recos(nist_df, e8_map, low) ==
    LET low_funcs == [i \in 1..Len(low) |-> nist_df[low[i]].Function]
        lifts == [i \in 1..Len(low_funcs) |-> LiftLine(low_funcs[i])]
        low_e8 == head(sorted_by_level(e8_map), E8Pick)
        raises == [i \in 1..Len(low_e8) |-> RaiseLine(low_e8[i][1], low_e8[i][2])]
        recs == lifts \o raises \o <<MfaLine, PatchLine, BackupLine>>
    IN  head(recs, RecoCap)

---------------------------------------------------------------------------
(* build_markdown_report *)

\* f"{x:.2f}" of a non-negative fraction (no fraction of the model is a tie)
Fmt2f(x) ==
    LET h == (200 * x.num + x.den) \div (2 * x.den)
    IN  NatStr(h \div 100) \o <<".", DigitChar((h % 100) \div 10), DigitChar(h % 10)>>

\* a faulty variant: the first row skipped
NistBulletsMutant(nist_df) ==
    [i \in 1..Len(nist_df) - 1 |->
        <<"- **", nist_df[i + 1].Function, "**: ">> \o Fmt2f(nist_df[i + 1].Score) \o <<" / 3">>]

\* for _, r in nist_df.iterrows(): one bullet per row, in row order
NistBullets(nist_df) ==
    [i \in 1..Len(nist_df) |->
        <<"- **", nist_df[i].Function, "**: ">> \o Fmt2f(nist_df[i].Score) \o <<" / 3">>]

\* for k, v in e8_map.items()
E8Bullets(e8_map) ==
    [i \in 1..Len(e8_map) |-> <<"- **", e8_map[i][1], "**: Level ">> \o IntStr(e8_map[i][2])]

\* for r in compute_recos(nist_df, e8_map)
RecoBullets(recs) == [i \in 1..Len(recs) |-> <<"- ">> \o recs[i]]

\* company or "Cyber Health Check"
Title(company) == IF company = "" THEN "Cyber Health Check" ELSE company

\* now: datetime.now().strftime("%Y-%m-%d %H:%M"); low: as in compute_recos
build_markdown_report(company, industry, size, nist_df, e8_map, now, low) ==
    <<  <<"# ", Title(company), " - NCP Cyber Health Check (NIST CSF)">>,
        <<"_Generated: ", now, "_  .  _Industry:_ **", industry, "**  .  _Size:_ **", size, "**">>,
        <<>>,
        <<"## NIST CSF Results (0-3)">> >>
    \o NistBullets(nist_df)
    \o << <<>>, <<"## Essential Eight (Level 0-3)">> >>
    \o E8Bullets(e8_map)
    \o << <<>>, <<"## Top Recommended Actions">> >>
    \o RecoBullets(compute_recos(nist_df, e8_map, low))
    \o << <<>>, <<"> Prototype only - indicative, not a formal audit.">> >>

---------------------------------------------------------------------------
(* The script: one run per user event (lines 214-387) *)

\* the Organization widgets: what the user types, and the select boxes' options
Companies == {"", "Acme Pty Ltd"}
Industries ==
    <<"Professional Services", "Education", "Healthcare", "Finance", "Retail",
      "Government", "Other">>
Sizes == <<"1-9", "10-49", "50-249", "250-999", "1000+">>

\* the Organization values the modelled user enters
OrgChoices ==
    {[company |-> "", industry |-> Industries[1], size |-> Sizes[1]],
     [company |-> "Acme Pty Ltd", industry |-> Industries[4], size |-> Sizes[2]]}

\* the form answers the modelled user changes
EditableKeys == {"Identify_1", "Recover_3", "E8_0", "E8_7"}

\* what datetime.now().strftime(...) may return
Timestamps == {"2025-01-01 09:00"}

\* the widgets' values on the first run that renders them
DefaultOrg == [company |-> "", industry |-> Industries[1], size |-> Sizes[1]]

AllQuestionKeys ==
    {QuestionKey(NIST_FUNCTIONS[r], i) : r \in 1..Len(NIST_FUNCTIONS), i \in 1..3}

AllE8Keys == {E8Key(i - 1) : i \in 1..Len(E8_ITEMS)}

\* st.radio(..., index=2, key=...) and st.radio(..., index=1, key=...): a keyed
\* widget stores its default under its key unless the key already holds a value
WidgetDefault(k) ==
    IF k \in AllQuestionKeys THEN PyStr(SCALE_LABELS[2 + 1]) ELSE PyStr(E8_SCALE[1 + 1])

RenderForm(s) ==
    [k \in DOMAIN s \cup AllQuestionKeys \cup AllE8Keys |->
        IF k \in DOMAIN s THEN s[k] ELSE WidgetDefault(k)]

\* the Reset button's body, before st.rerun()
ResetKeys(s) ==
    Put(DelAll(s, {k \in DOMAIN s : ~StartsWithUnderscore(k)}), "_ran", PyBool(FALSE))

\* The script from the session flags to the results guard, for the button
\* the user pressed ("none" when a widget changed); st.rerun() runs it again
\* with no button pressed.  Organization widgets that a run does not render
\* lose their value.
RECURSIVE Flow(_, _, _)
Flow(s, button, o) ==
    LET s1 == SetDefault(SetDefault(s, "started", PyBool(FALSE)), "_ran", PyBool(FALSE))
    IN  IF ~s1["started"][2]
        THEN IF button = "start"
             THEN Flow(Put(s1, "started", PyBool(TRUE)), "none", DefaultOrg)
             ELSE [session |-> s1, screen |-> "splash", org |-> DefaultOrg]
        ELSE LET s2 == RenderForm(s1)
                 s3 == IF button = "calculate" THEN Put(s2, "_ran", PyBool(TRUE)) ELSE s2
             IN  IF button = "reset"
                 THEN Flow(ResetKeys(s3), "none", DefaultOrg)
                 ELSE [session |-> s3,
                       screen |-> IF s3["_ran"][2] THEN "results" ELSE "form",
                       org |-> o]

NoResults == [shown |-> FALSE]

\* the results block (lines 307-387); the gauge, the highlights card and the
\* charts only draw and are left out
ResultsBlock(s, o, now, low) ==
    LET nist_df == compute_nist_scores(s)
        e8_map == get_e8_map(s)
    IN  [shown |-> TRUE,
         nist_df |-> nist_df,
         e8_map |-> e8_map,
         overall |-> Overall(nist_df),
         recs |-> compute_recos(nist_df, e8_map, low),
         md |-> build_markdown_report(o.company, o.industry, o.size, nist_df, e8_map, now, low)]

\* the harness variables, idle while the app runs
IdleState == <<>>
IdleBase == <<"idle">>
IdleOut == [raised |-> FALSE]

HarnessIdle ==
    /\ state = IdleState /\ base = IdleBase /\ nist_out = IdleOut
    /\ in_df = <<>> /\ in_e8 = <<>> /\ in_company = "" /\ reco_out = IdleOut

\* the app before any user event: the first run has shown the splash screen
AppStart ==
    /\ session = Flow(<<>>, "none", DefaultOrg).session
    /\ screen = "splash"
    /\ clicked = "load"
    /\ org = DefaultOrg
    /\ results = NoResults

Init == AppStart /\ HarnessIdle

\* one script run, started by `button` on session s
Rerun(s, button, o) ==
    LET f == Flow(s, button, o)
    IN  /\ session' = f.session
        /\ screen' = f.screen
        /\ org' = f.org
        /\ clicked' = button
        /\ IF f.screen = "results"
           THEN \E now \in Timestamps,
                   low \in SortedHeads(compute_nist_scores(f.session), HeadCount) :
                    results' = ResultsBlock(f.session, f.org, now, low)
           ELSE results' = NoResults
        /\ UNCHANGED <<state, base, nist_out, in_df, in_e8, in_company, reco_out>>

\* the form answers that differ from the widget defaults
Changed(s) == {k \in (AllQuestionKeys \cup AllE8Keys) \cap DOMAIN s : s[k] # WidgetDefault(k)}

ClickStart ==
    /\ screen = "splash"
    /\ Rerun(session, "start", org)

ChangeAnswer ==
    /\ screen # "splash"
    /\ \E k \in AllQuestionKeys \cap EditableKeys, l \in Range(SCALE_LABELS) :
        /\ session[k] # PyStr(l)
        /\ Cardinality(Changed(Put(session, k, PyStr(l)))) <= MaxChanges
        /\ Rerun(Put(session, k, PyStr(l)), "none", org)

ChangeE8 ==
    /\ screen # "splash"
    /\ \E k \in AllE8Keys \cap EditableKeys, l \in Range(E8_SCALE) :
        /\ session[k] # PyStr(l)
        /\ Cardinality(Changed(Put(session, k, PyStr(l)))) <= MaxChanges
        /\ Rerun(Put(session, k, PyStr(l)), "none", org)

ChangeOrg ==
    /\ screen # "splash"
    /\ \E o \in OrgChoices :
        /\ o # org
        /\ Rerun(session, "none", o)

ClickCalculate ==
    /\ screen # "splash"
    /\ Rerun(session, "calculate", org)

ClickReset ==
    /\ screen # "splash"
    /\ Rerun(session, "reset", org)

Next ==
    \/ ClickStart
    \/ ChangeAnswer
    \/ ChangeE8
    \/ ChangeOrg
    \/ ClickCalculate
    \/ ClickReset

Spec == Init /\ [][Next]_vars

---------------------------------------------------------------------------
(* Scoring harness: compute_nist_scores and the overall index on dicts that  *)
(* hold any label, an unrecognised label, or no entry, per question          *)

\* an answer no vocabulary holds
UnknownLabel == "N/A"

\* the entry of a key that is not in the dict
Absent == <<"absent", "">>

AnswerChoices == {PyStr(l) : l \in Range(SCALE_LABELS)} \cup {PyStr(UnknownLabel)}

Entry(d, k) == IF k \in DOMAIN d THEN d[k] ELSE Absent

\* d[k] = v, or del d[k] when v is Absent
Store(d, k, v) == IF v = Absent THEN DelAll(d, {k}) ELSE Put(d, k, v)

\* the dict that answers every question with b
Uniform(b) == IF b = Absent THEN <<>> ELSE [k \in AllQuestionKeys |-> b]

Distance(d, b) == Cardinality({k \in AllQuestionKeys : Entry(d, k) # b})

\* a call of compute_nist_scores and of line 310; the function has no raise
ScoreCall(st) ==
    [raised |-> FALSE,
     df |-> compute_nist_scores(st),
     overall |-> Overall(compute_nist_scores(st))]

RecoIdle == in_df = <<>> /\ in_e8 = <<>> /\ in_company = "" /\ reco_out = IdleOut

ScoreInit ==
    /\ AppStart
    /\ RecoIdle
    /\ base \in AnswerChoices \cup {Absent}
    /\ state = Uniform(base)
    /\ nist_out = ScoreCall(state)

\* the caller stores an answer and scores again
SetAnswer ==
    \E k \in AllQuestionKeys, v \in AnswerChoices :
        /\ Entry(state, k) # v
        /\ Distance(Store(state, k, v), base) <= MaxEdits
        /\ state' = Store(state, k, v)
        /\ nist_out' = ScoreCall(state')
        /\ UNCHANGED <<session, screen, clicked, org, results, base,
                       in_df, in_e8, in_company, reco_out>>

\* the caller drops an answer and scores again
DelAnswer ==
    \E k \in DOMAIN state :
        /\ Distance(Store(state, k, Absent), base) <= MaxEdits
        /\ state' = Store(state, k, Absent)
        /\ nist_out' = ScoreCall(state')
        /\ UNCHANGED <<session, screen, clicked, org, results, base,
                       in_df, in_e8, in_company, reco_out>>

NextScore ==
    \/ SetAnswer
    \/ DelAnswer

SpecScore == ScoreInit /\ [][NextScore]_vars

---------------------------------------------------------------------------
(* Recommendation harness: get_e8_map, compute_recos and                     *)
(* build_markdown_report on the scores of a form and on E8 entries that hold *)
(* a label, an unrecognised label, an integer, or nothing                    *)

\* a form as first rendered, and a form filled in
DefaultForm == RenderForm(<<>>)

FilledForm ==
    [k \in AllQuestionKeys \cup AllE8Keys |->
        CASE k \in {"Identify_1", "Identify_2", "Identify_3"} -> PyStr("Mostly")
          [] k \in {"Protect_1", "Protect_2", "Protect_3"} -> PyStr("Partially")
          [] k \in {"Detect_1", "Detect_2", "Detect_3"} -> PyStr("Fully")
          [] k = "Respond_1" -> PyStr("No")
          [] k = "Respond_2" -> PyStr("Partially")
          [] k = "Respond_3" -> PyStr("Mostly")
          [] k \in {"Recover_1", "Recover_2"} -> PyStr("Mostly")
          [] k = "Recover_3" -> PyStr("Don't know")
          [] k \in {"E8_0", "E8_5"} -> PyStr("Mostly")
          [] k \in {"E8_1", "E8_4", "E8_7"} -> PyStr("Partially")
          [] k \in {"E8_2", "E8_6"} -> PyStr("Fully")
          [] k = "E8_3" -> PyStr("Not implemented")]

\* what an E8 key may hold: a label, an unrecognised label, an integer inside
\* or outside the range of levels, or nothing
RawInts == {-1, 0, 3, 4}

E8Raws ==
    {PyStr(l) : l \in Range(E8_SCALE)} \cup {PyStr(UnknownLabel)}
        \cup {PyInt(n) : n \in RawInts} \cup {Absent}

\* the sums three answers can have: Score is num / 3
ScoreNums == 0..9

\* the arguments one more change away from those of a
OneMore(a) ==
    {[a EXCEPT !.df[r].Score.num = n] : r \in 1..Len(a.df), n \in ScoreNums}
        \cup {[a EXCEPT !.e8 = Store(a.e8, k, v)] : k \in AllE8Keys, v \in E8Raws}
        \cup {[a EXCEPT !.company = c] : c \in Companies}

RECURSIVE Within(_, _)
Within(A, n) == IF n = 0 THEN A ELSE Within(A \cup UNION {OneMore(a) : a \in A}, n - 1)

FormArgs(form) ==
    [df |-> compute_nist_scores(form),
     e8 |-> [k \in AllE8Keys |-> form[k]],
     company |-> ""]

NotCalled == [called |-> FALSE]

ScoreIdle == state = IdleState /\ base = IdleBase /\ nist_out = IdleOut

RecoInit ==
    /\ AppStart
    /\ ScoreIdle
    /\ \E a \in Within({FormArgs(DefaultForm), FormArgs(FilledForm)}, MaxRecoEdits) :
        /\ in_df = a.df
        /\ in_e8 = a.e8
        /\ in_company = a.company
    /\ reco_out = NotCalled

\* the caller maps the E8 entries, asks for the recommendations and the report
Call ==
    /\ reco_out = NotCalled
    /\ \E now \in Timestamps, low \in SortedHeads(in_df, HeadCount) :
        LET e8_map == get_e8_map(in_e8)
        IN  reco_out' =
                [called |-> TRUE,
                 e8_map |-> e8_map,
                 low |-> low,
                 recs |-> compute_recos(in_df, e8_map, low),
                 md |-> build_markdown_report(in_company, DefaultOrg.industry, DefaultOrg.size,
                                              in_df, e8_map, now, low)]
    /\ UNCHANGED <<session, screen, clicked, org, results, state, base, nist_out,
                   in_df, in_e8, in_company>>

NextReco == Call

SpecRecos == RecoInit /\ [][NextReco]_vars

---------------------------------------------------------------------------
(* Claims about compute_nist_scores and the overall index (SpecScore) *)

Rows == 1..Len(NIST_FUNCTIONS)

Whole(n) == [num |-> n, den |-> 1]

KnownLabel(v) == v[1] = "str" /\ v[2] \in DOMAIN SCALE

\* the dict d with every missing question answered v
Fill(d, v) == [k \in AllQuestionKeys |-> IF k \in DOMAIN d THEN d[k] ELSE v]

\* the dict d with every answer that is no label of SCALE replaced by v
Relabel(d, v) == [k \in DOMAIN d |-> IF KnownLabel(d[k]) THEN d[k] ELSE v]

HasUnknownLabel(d) == \E k \in AllQuestionKeys \cap DOMAIN d : ~KnownLabel(d[k])

\* C1: when all 15 questions are answered "Fully", every function scores 3.0
\* and the overall index, the mean of the five scores, is 3.0.
C1_AllFullyIsMax ==
    (\A k \in AllQuestionKeys : Entry(state, k) = PyStr("Fully"))
        => /\ ~nist_out.raised
           /\ \A r \in Rows : Eq(nist_out.df[r].Score, Whole(3))
           /\ Eq(nist_out.overall, Whole(3))

C1_Witness ==
    /\ \A k \in AllQuestionKeys : Entry(state, k) = PyStr("Fully")
    /\ Len(nist_out.df) = 5
    /\ nist_out.df[5].Function = "Recover"

\* C2 as stated: a missing answer is scored as "Don't know" would be (the
\* scores of a dict equal those of the dict with "Don't know" filled in).
C2_MissingAsDontKnow ==
    nist_out.df = compute_nist_scores(Fill(state, PyStr("Don't know")))

\* C2 amended: a missing answer is scored as "Mostly" would be, value 2: the
\* scores of a dict equal those of the dict with "Mostly" filled in, and the
\* dict with no question key scores 2.0 in every function.
C2_MissingAsMostly ==
    /\ nist_out.df = compute_nist_scores(Fill(state, PyStr("Mostly")))
    /\ DOMAIN state = {} => \A r \in Rows : Eq(nist_out.df[r].Score, Whole(2))

C2_Witness ==
    /\ "Protect_2" \in DOMAIN state
    /\ state["Protect_2"] = PyStr("No")
    /\ AllQuestionKeys \ DOMAIN state # {}
    /\ nist_out.df[2].Score = [num |-> 4, den |-> 3]

\* the value an answer stands for when it is replaced: its SCALE value, or the
\* neutral 1 of "Don't know" when it is missing or no label of SCALE
Nominal(v) == IF KnownLabel(v) THEN SCALE[v[2]] ELSE 1

\* this step replaces the answer under k alone, by a choice of higher value
RaisesOnly(k) ==
    /\ \A k2 \in AllQuestionKeys \ {k} : Entry(state', k2) = Entry(state, k2)
    /\ KnownLabel(Entry(state', k))
    /\ SCALE[Entry(state', k)[2]] > Nominal(Entry(state, k))

\* C3: replacing one question's answer (or its missing answer) by a choice of
\* higher SCALE value never lowers the score of that question's function and
\* leaves the scores of the other four functions as they were.
C3_Monotonic ==
    [][\A r \in Rows, i \in 1..3 :
          RaisesOnly(QuestionKey(NIST_FUNCTIONS[r], i))
              => /\ ~Lt(nist_out'.df[r].Score, nist_out.df[r].Score)
                 /\ \A r2 \in Rows \ {r} : nist_out'.df[r2].Score = nist_out.df[r2].Score]_vars

C3_Witness ==
    /\ base = PyStr("No")
    /\ Entry(state, "Detect_2") = PyStr("Fully")
    /\ nist_out.df[3].Score = [num |-> 3, den |-> 3]
    /\ \A r \in Rows \ {3} : nist_out.df[r].Score.num = 0

\* C4 as stated: an answer whose label is not in SCALE makes scoring raise a
\* validation error and return no score.
C4_UnknownLabelRaises == HasUnknownLabel(state) => nist_out.raised

\* C4 amended: an answer whose label is not in SCALE raises nothing; scoring
\* returns a score for every function, with that answer counted as 1, the
\* value of "Don't know".
C4_UnknownLabelCountsOne ==
    HasUnknownLabel(state)
        => /\ ~nist_out.raised
           /\ Len(nist_out.df) = Len(NIST_FUNCTIONS)
           /\ nist_out.df = compute_nist_scores(Relabel(state, PyStr("Don't know")))

C4_Witness ==
    /\ Entry(state, "Respond_1") = PyStr(UnknownLabel)
    /\ Entry(state, "Respond_2") = PyStr("Fully")
    /\ nist_out.df[4].Score = [num |-> 7, den |-> 3]

---------------------------------------------------------------------------
(* Claims about get_e8_map, compute_recos and the report (SpecRecos) *)

Levels == [i \in 1..Len(reco_out.e8_map) |-> reco_out.e8_map[i][2]]

\* the first position of the least value of f over the positions S
FirstLeast(f, S) ==
    CHOOSE i \in S : /\ \A j \in S : f[i] <= f[j]
                     /\ \A j \in S : j < i => f[j] > f[i]

\* the first row of least Score among the rows S
FirstLowest(df, S) ==
    CHOOSE i \in S : /\ \A j \in S : ~Lt(df[j].Score, df[i].Score)
                     /\ \A j \in S : j < i => Lt(df[i].Score, df[j].Score)

\* C5: the list compute_recos returns has at most 6 entries and no two of
\* them are the same string.
C5_CappedNoDuplicates ==
    reco_out.called
        => /\ Len(reco_out.recs) <= 6
           /\ \A i, j \in 1..Len(reco_out.recs) : i # j => reco_out.recs[i] # reco_out.recs[j]

C5_Witness ==
    /\ reco_out.called
    /\ Len(reco_out.recs) = 6
    /\ \A r \in Rows : in_df[r].Score = in_df[1].Score
    /\ \E k \in AllE8Keys : Entry(in_e8, k) = PyInt(4)

\* C6: the leading entries name the two lowest-scoring functions, ranked
\* ascending by score with equal scores kept in the order Identify, Protect,
\* Detect, Respond, Recover.
C6_StableTieBreak ==
    reco_out.called
        => LET first == FirstLowest(in_df, Rows)
               second == FirstLowest(in_df, Rows \ {first})
           IN  /\ reco_out.recs[1] = LiftLine(NIST_FUNCTIONS[first])
               /\ reco_out.recs[2] = LiftLine(NIST_FUNCTIONS[second])

\* C7: the report is, in this order, the H1 title line, the metadata line,
\* the NIST section with one bullet per function in canonical order as
\* "- **<Function>**: <score> / 3", the Essential Eight section with one
\* bullet per control, the recommendations section whose bullets are the
\* compute_recos output in its order, and the disclaimer as the last line.
C7_ReportSections ==
    reco_out.called
        => LET md == reco_out.md
               n == Len(reco_out.recs)
           IN  /\ Len(md) = 23 + n
               /\ md[1] = <<"# ", IF in_company = "" THEN "Cyber Health Check" ELSE in_company,
                            " - NCP Cyber Health Check (NIST CSF)">>
               /\ Len(md[2]) = 7 /\ md[2][1] = "_Generated: "
               /\ md[3] = <<>>
               /\ md[4] = <<"## NIST CSF Results (0-3)">>
               /\ \A r \in Rows :
                     md[4 + r] = <<"- **", NIST_FUNCTIONS[r], "**: ">>
                                    \o Fmt2f(in_df[r].Score) \o <<" / 3">>
               /\ md[10] = <<>>
               /\ md[11] = <<"## Essential Eight (Level 0-3)">>
               /\ \A i \in 1..Len(E8_ITEMS) :
                     md[11 + i] = <<"- **", E8_ITEMS[i], "**: Level ">> \o IntStr(Levels[i])
               /\ md[20] = <<>>
               /\ md[21] = <<"## Top Recommended Actions">>
               /\ \A i \in 1..n : md[21 + i] = <<"- ">> \o reco_out.recs[i]
               /\ md[22 + n] = <<>>
               /\ md[23 + n] = <<"> Prototype only - indicative, not a formal audit.">>

C7_Witness ==
    /\ reco_out.called
    /\ in_company = "Acme Pty Ltd"
    /\ Len(reco_out.md) = 29
    /\ reco_out.md[27][1] = "- "

\* C9: every level of the map get_e8_map returns, and so every level the
\* report and the recommendations print, is within 0..3.
C9_LevelsInRange ==
    reco_out.called => \A i \in 1..Len(E8_ITEMS) : Levels[i] \in 0..3

\* C10: compute_recos returns exactly 6 entries: 2 "Lift" lines, the 2 "Raise"
\* lines of the two lowest-level controls (equal levels in E8_ITEMS order), the
\* MFA line, the patch-SLA line; the tested-backups line is never returned.
C10_FixedLayout ==
    reco_out.called
        => LET recs == reco_out.recs
               c1 == FirstLeast(Levels, 1..Len(E8_ITEMS))
               c2 == FirstLeast(Levels, (1..Len(E8_ITEMS)) \ {c1})
           IN  /\ Len(recs) = 6
               /\ \A i \in 1..2 : \E r \in Rows : recs[i] = LiftLine(NIST_FUNCTIONS[r])
               /\ recs[3] = RaiseLine(E8_ITEMS[c1], Levels[c1])
               /\ recs[4] = RaiseLine(E8_ITEMS[c2], Levels[c2])
               /\ recs[5] = MfaLine
               /\ recs[6] = PatchLine
               /\ \A i \in 1..Len(recs) : recs[i] # BackupLine

C10_Witness ==
    /\ reco_out.called
    /\ reco_out.recs[3][2] = "User Application Hardening"
    /\ reco_out.recs[4][2] = "Patch Applications"
    /\ reco_out.recs[6] = PatchLine

---------------------------------------------------------------------------
(* Claim about the session flags (Spec) *)

Flag(name) == name \in DOMAIN session /\ session[name][2]

\* C8: results are rendered only in a run where "started" and "_ran" are both
\* true; after Reset no answer key is left, "started" and "_ran" are false and
\* the run shows the splash screen; the splash screen is left only by Start
\* assessment, to the form, and results appear only by Calculate results.
C8_ResultsNeedBothFlags ==
    /\ [](/\ (screen = "results" <=> results.shown)
          /\ (screen = "results" => Flag("started") /\ Flag("_ran"))
          /\ (clicked = "reset"
                 => /\ DOMAIN session = {"started", "_ran"}
                    /\ ~Flag("started") /\ ~Flag("_ran")
                    /\ screen = "splash"))
    /\ [][/\ (screen = "splash" /\ screen' # "splash"
                 => clicked' = "start" /\ screen' = "form")
          /\ (screen # "results" /\ screen' = "results" => clicked' = "calculate")]_vars

C8_Witness ==
    /\ clicked = "reset"
    /\ screen = "splash"
    /\ ~results.shown
    /\ org = DefaultOrg

=============================================================================
